---- MODULE Spec2Model ----
(***************************************************************************)
(* A model of the job-tracker service: the application record store        *)
(* (database/operations.py, database/models.py), the upload validator and  *)
(* the request handlers (api/routes.py) and the object store gateway       *)
(* (storage/storage.py).                                                   *)
(*                                                                         *)
(* Python strings are sequences of one-character strings, so that strip,   *)
(* rsplit and lower are computed and not assumed.  Python's None is the    *)
(* one-element sequence None, which no character sequence equals.          *)
(***************************************************************************)
EXTENDS Integers, Sequences, FiniteSets, TLC

VARIABLES
    docs,       \* the job_applications collection: document id -> stored dict
    now,        \* the value datetime.utcnow() returns
    lastOp,     \* the last call on the record store, its arguments and outcome
    vfile,      \* the file part handed to validate_file, with its read position
    vres,       \* what validate_file returned for it
    objects,    \* the bucket: storage key -> length of the stored payload
    nextKey,    \* the storage keys handed out so far are 1 .. nextKey - 1
    up,         \* the upload_file call in progress, or the last one
    delLog,     \* the last delete_file calls in a row, oldest first
    lastGet,    \* the get_file_url call made since the last delete_file
    h,          \* the request being handled, or the last one handled
    upd,        \* caller -> the update call that caller has in progress
    lastWrite,  \* document id -> the caller whose doc_ref.update came last
    listed      \* the last list call, its arguments and what it returned

storeVars == <<docs, now, lastOp>>
valVars == <<vfile, vres>>
upVars == <<nextKey, up>>
delVars == <<delLog, lastGet>>
callVars == <<upd, lastWrite, listed>>
vars ==
    <<docs, now, lastOp, vfile, vres, objects, nextKey, up, delLog, lastGet, h,
      upd, lastWrite, listed>>

(***************************************************************************)
(* Bounds of the model.                                                    *)
(***************************************************************************)
MaxTime == 3          \* the record store takes no call after this time
RetryDeadline == 2    \* the retry deadline of upload_file, in clock ticks
MaxKeys == 3          \* no upload_file call starts once this many keys are used
MaxRequests == 2      \* the requests the handlers receive

(***************************************************************************)
(* Values.                                                                 *)
(***************************************************************************)
None == <<"None">>

\* The ids Firestore can hand out for a new document.
DocIds == {"d1", "d2"}

Whitespace == {" ", "\t", "\n"}

\* str.strip(): leading and trailing whitespace removed.
RECURSIVE LStrip(_)
LStrip(s) ==
    IF s # <<>> /\ Head(s) \in Whitespace THEN LStrip(Tail(s)) ELSE s

RECURSIVE RStrip(_)
RStrip(s) ==
    IF s # <<>> /\ s[Len(s)] \in Whitespace
    THEN RStrip(SubSeq(s, 1, Len(s) - 1))
    ELSE s

Strip(s) == RStrip(LStrip(s))

\* Python's truth value of an optional string: None and "" are false.
Truthy(x) == x # None /\ x # <<>>

\* dict.get(key, default)
DictGet(d, k, default) == IF k \in DOMAIN d THEN d[k] ELSE default

(***************************************************************************)
(* database/models.py: JobApplication                                      *)
(***************************************************************************)
valid_statuses == {"applied", "interviewing", "offered", "rejected", "accepted"}

\* JobApplication.__init__: created_at = utcnow(), updated_at = created_at
JobApplication(company, position, status, resume_url, notes, t) ==
    [company |-> company, position |-> position, status |-> status,
     resume_url |-> resume_url, notes |-> notes,
     created_at |-> t, updated_at |-> t]

\* JobApplication.to_dict
to_dict(app) ==
    [company |-> app.company, position |-> app.position, status |-> app.status,
     resume_url |-> app.resume_url, notes |-> app.notes,
     created_at |-> app.created_at, updated_at |-> app.updated_at]

\* JobApplication.from_dict: a key the dict lacks gets the default, a key it
\* holds gets its value whatever that is; keys that are no field are dropped.
from_dict(data, t) ==
    [JobApplication(DictGet(data, "company", None),
                    DictGet(data, "position", None),
                    DictGet(data, "status", "applied"),
                    DictGet(data, "resume_url", None),
                    DictGet(data, "notes", None), t)
       EXCEPT !.created_at = DictGet(data, "created_at", t),
              !.updated_at = DictGet(data, "updated_at", t)]

ErrCompany == "Company name is required"
ErrPosition == "Position is required"
ErrStatus == "Status must be one of: applied, interviewing, offered, rejected, accepted"

\* validate as a slip would have it: the strip() test left out.
validate_nostrip(app) ==
    (IF ~Truthy(app.company) THEN <<ErrCompany>> ELSE <<>>)
    \o (IF ~Truthy(app.position) THEN <<ErrPosition>> ELSE <<>>)
    \o (IF app.status \notin valid_statuses THEN <<ErrStatus>> ELSE <<>>)

\* JobApplication.validate: the list of every violated rule, in order.
validate(app) ==
    (IF ~Truthy(app.company) \/ Len(Strip(app.company)) = 0
     THEN <<ErrCompany>> ELSE <<>>)
    \o (IF ~Truthy(app.position) \/ Len(Strip(app.position)) = 0
        THEN <<ErrPosition>> ELSE <<>>)
    \o (IF app.status \notin valid_statuses THEN <<ErrStatus>> ELSE <<>>)

(***************************************************************************)
(* database/operations.py: JobApplicationStore                             *)
(***************************************************************************)
\* dict.update(updates): the keys of updates win.
DictUpdate(d, u) ==
    [k \in DOMAIN d \cup DOMAIN u |-> IF k \in DOMAIN u THEN u[k] ELSE d[k]]

\* MergedData as a slip would have it: updated_at not refreshed.
MergedData_stale(current_data, updates, t) ==
    DictUpdate(current_data, updates)

\* update, lines 62-64: the current dict with the updates and the new
\* updated_at laid over it.
MergedData(current_data, updates, t) ==
    [DictUpdate(current_data, updates) EXCEPT !["updated_at"] = t]

\* DocumentReference.update(fields): the named fields of the stored
\* document are overwritten, the others stay.
DocUpdate(doc, fields) == DictUpdate(doc, fields)

NoCall == [op |-> "none", res |-> "none"]

\* JobApplicationStore.create.  backend_ok is whether Firestore carries out
\* doc_ref.set; when it does not, the call raises Firestore's error.
create(application, backend_ok) ==
    LET errors == validate(application) IN
    IF errors # <<>>
    THEN /\ lastOp' = [op |-> "create", app |-> application,
                       res |-> "ValueError", errors |-> errors]
         /\ UNCHANGED docs
    ELSE IF ~backend_ok
    THEN /\ lastOp' = [op |-> "create", app |-> application,
                       res |-> "BackendError"]
         /\ UNCHANGED docs
    ELSE \E id \in DocIds \ DOMAIN docs :
            /\ docs' = [d \in DOMAIN docs \cup {id} |->
                           IF d = id THEN to_dict(application) ELSE docs[d]]
            /\ lastOp' = [op |-> "create", app |-> application,
                          res |-> "ok", id |-> id]

\* JobApplicationStore.update.  backend_ok is whether Firestore carries out
\* doc_ref.get and doc_ref.update; when it does not, the call raises.
update(application_id, updates, backend_ok) ==
    IF ~backend_ok
    THEN /\ lastOp' = [op |-> "update", id |-> application_id,
                       updates |-> updates, res |-> "BackendError"]
         /\ UNCHANGED docs
    ELSE IF application_id \notin DOMAIN docs
    THEN /\ lastOp' = [op |-> "update", id |-> application_id,
                       updates |-> updates, res |-> "None"]
         /\ UNCHANGED docs
    ELSE LET current_data == MergedData(docs[application_id], updates, now)
             application == from_dict(current_data, now)
             errors == validate(application)
         IN  IF errors # <<>>
             THEN /\ lastOp' = [op |-> "update", id |-> application_id,
                                updates |-> updates, app |-> application,
                                res |-> "ValueError", errors |-> errors]
                  /\ UNCHANGED docs
             ELSE /\ docs' = [docs EXCEPT ![application_id] =
                                 DocUpdate(@, to_dict(application))]
                  /\ lastOp' = [op |-> "update", id |-> application_id,
                                updates |-> updates, ret |-> application,
                                res |-> "ok"]

(***************************************************************************)
(* api/routes.py: the upload validator                                     *)
(***************************************************************************)
ALLOWED_EXTENSIONS ==
    {<<"p", "d", "f">>, <<"d", "o", "c">>, <<"d", "o", "c", "x">>,
     <<"t", "x", "t">>, <<"r", "t", "f">>}

MAX_FILE_SIZE == 10 * 1024 * 1024

UpperAlpha ==
    <<"A", "B", "C", "D", "E", "F", "G", "H", "I", "J", "K", "L", "M",
      "N", "O", "P", "Q", "R", "S", "T", "U", "V", "W", "X", "Y", "Z">>
LowerAlpha ==
    <<"a", "b", "c", "d", "e", "f", "g", "h", "i", "j", "k", "l", "m",
      "n", "o", "p", "q", "r", "s", "t", "u", "v", "w", "x", "y", "z">>

\* str.lower(), character by character.
LowerChar(c) ==
    IF \E i \in 1 .. 26 : UpperAlpha[i] = c
    THEN LowerAlpha[CHOOSE i \in 1 .. 26 : UpperAlpha[i] = c]
    ELSE c

Lower(s) == [i \in 1 .. Len(s) |-> LowerChar(s[i])]

\* '.' in filename
HasDot(s) == \E i \in 1 .. Len(s) : s[i] = "."

\* filename.rsplit('.', 1)[1]: scanning from the right, what follows the
\* first '.' met.  Only used when the name holds a '.'.
RECURSIVE RSplitTail(_, _)
RSplitTail(s, acc) ==
    IF s[Len(s)] = "." THEN acc
    ELSE RSplitTail(SubSeq(s, 1, Len(s) - 1), <<s[Len(s)]>> \o acc)

\* allowed_file
allowed_file(filename) ==
    HasDot(filename) /\ Lower(RSplitTail(filename, <<>>)) \in ALLOWED_EXTENSIONS

\* A request without the file part, as validate_file sees it.
NoFile == [present |-> FALSE, filename |-> <<>>, size |-> 0, pos |-> 0]

\* The truth value of a file part: a FileStorage is true when it has a
\* filename, None is false.
FileTruthy(file) == file.present /\ file.filename # <<>>

\* file.read(): the bytes from the read position to the end, the position
\* left at the end.
ReadLen(file) == file.size - file.pos

MsgNoFile == "No file provided"
MsgFilename == "Invalid filename"
MsgType == "File type not allowed"
MsgSize == "File size exceeds maximum limit of 10MB"

\* validate_file as a slip would have it: the seek(0) after the read left
\* out, the read position staying at the end of the file.
validate_file_noseek(file) ==
    IF ~FileTruthy(file)
    THEN [ok |-> FALSE, msg |-> MsgNoFile, pos |-> file.pos]
    ELSE IF file.filename = <<>>
    THEN [ok |-> FALSE, msg |-> MsgFilename, pos |-> file.pos]
    ELSE IF ~allowed_file(file.filename)
    THEN [ok |-> FALSE, msg |-> MsgType, pos |-> file.pos]
    ELSE IF ReadLen(file) > MAX_FILE_SIZE
    THEN [ok |-> FALSE, msg |-> MsgSize, pos |-> file.size]
    ELSE [ok |-> TRUE, msg |-> "", pos |-> file.size]

\* validate_file as a slip would have it: >= for >.
validate_file_ge(file) ==
    IF ~FileTruthy(file)
    THEN [ok |-> FALSE, msg |-> MsgNoFile, pos |-> file.pos]
    ELSE IF file.filename = <<>>
    THEN [ok |-> FALSE, msg |-> MsgFilename, pos |-> file.pos]
    ELSE IF ~allowed_file(file.filename)
    THEN [ok |-> FALSE, msg |-> MsgType, pos |-> file.pos]
    ELSE IF ReadLen(file) >= MAX_FILE_SIZE
    THEN [ok |-> FALSE, msg |-> MsgSize, pos |-> 0]
    ELSE [ok |-> TRUE, msg |-> "", pos |-> 0]

\* validate_file: (is_valid, error_message) and the read position the file
\* is left at (seek(0) after the read, untouched when nothing was read).
validate_file(file) ==
    IF ~FileTruthy(file)
    THEN [ok |-> FALSE, msg |-> MsgNoFile, pos |-> file.pos]
    ELSE IF file.filename = <<>>
    THEN [ok |-> FALSE, msg |-> MsgFilename, pos |-> file.pos]
    ELSE IF ~allowed_file(file.filename)
    THEN [ok |-> FALSE, msg |-> MsgType, pos |-> file.pos]
    ELSE IF ReadLen(file) > MAX_FILE_SIZE
    THEN [ok |-> FALSE, msg |-> MsgSize, pos |-> 0]
    ELSE [ok |-> TRUE, msg |-> "", pos |-> 0]

(***************************************************************************)
(* storage/storage.py: CloudStorageManager                                 *)
(***************************************************************************)
\* The exceptions a backend call can raise.
BackendExceptions == {"ServiceUnavailable", "ValueError"}

NoUpload ==
    [pc |-> "idle", data |-> 0, name |-> <<>>, key |-> 0, first |-> 0,
     elapsed |-> 0, exc |-> "none", ret |-> None]

\* up holds the locals of the upload_file call in progress; once the call
\* has returned or raised, only its outcome and the first key it drew.

\* The signed GET URL of a key.
SignedUrl(key) == <<"url", key>>

\* Entering upload_file(file_data, original_filename).
UploadEnter(file_data, original_filename) ==
    /\ up.pc \in {"idle", "returned", "raised"}
    /\ up' = [NoUpload EXCEPT !.pc = "write", !.data = file_data,
                              !.name = original_filename, !.first = nextKey]
    /\ UNCHANGED <<objects, nextKey>>

\* Lines 75-97 of one attempt: a fresh key, then blob.upload_from_string,
\* which either writes the whole payload or raises and writes nothing.
UploadWrite ==
    /\ up.pc = "write"
    /\ nextKey' = nextKey + 1
    /\ \/ /\ objects' = [k \in DOMAIN objects \cup {nextKey} |->
                            IF k = nextKey THEN up.data ELSE objects[k]]
          /\ up' = [up EXCEPT !.pc = "sign", !.key = nextKey,
                              !.elapsed = @ + 1]
       \/ /\ \E e \in BackendExceptions :
                up' = [up EXCEPT !.pc = "retry", !.key = nextKey,
                                 !.elapsed = @ + 1, !.exc = e]
          /\ UNCHANGED objects
    /\ UNCHANGED <<storeVars, valVars, delVars, h, callVars>>

\* Lines 99-107: blob.generate_signed_url, then the return; an exception is
\* logged and raised again (lines 109-111), to the retry decorator.
UploadSign ==
    /\ up.pc = "sign"
    /\ \/ up' = [NoUpload EXCEPT !.pc = "returned", !.first = up.first,
                                 !.ret = <<up.key, SignedUrl(up.key)>>]
       \/ \E e \in BackendExceptions :
             up' = [up EXCEPT !.pc = "retry", !.exc = e]
    /\ UNCHANGED <<objects, nextKey>>
    /\ UNCHANGED <<storeVars, valVars, delVars, h, callVars>>

\* The retry decorator gives up when the next sleep would pass its deadline.
DeadlineExceeded_never(elapsed, sleep) == FALSE

DeadlineExceeded(elapsed, sleep) == elapsed + sleep > RetryDeadline

\* What the retry decorator raises when it gives up.
RetryGivesUp_last(last_exc) == last_exc

RetryGivesUp(last_exc) == "RetryError"

\* Line 60, @retry.Retry(predicate=if_exception_type(Exception)): any
\* exception of an attempt is retried after a sleep, until the deadline.
UploadRetry ==
    /\ up.pc = "retry"
    /\ \E sleep \in {0, 1} :
          IF DeadlineExceeded(up.elapsed, sleep)
          THEN up' = [NoUpload EXCEPT !.pc = "raised", !.first = up.first,
                                      !.exc = RetryGivesUp(up.exc)]
          ELSE up' = [up EXCEPT !.pc = "write", !.elapsed = @ + sleep]
    /\ UNCHANGED <<objects, nextKey>>
    /\ UNCHANGED <<storeVars, valVars, delVars, h, callVars>>

UploadStep == UploadWrite \/ UploadSign \/ UploadRetry

\* The backend call that errors during a get_file_url or delete_file call,
\* if that call is made: blob.exists, or the call after it.
BackendFaults == {"none", "exists", "after"}

\* get_file_url: None when the object is absent and on any exception.
get_file_url(file_path, fault) ==
    IF fault = "exists" THEN None
    ELSE IF file_path \notin DOMAIN objects THEN None
    ELSE IF fault = "after" THEN None
    ELSE SignedUrl(file_path)

\* delete_file as a slip would have it: no blob.exists test.
delete_file_blind(file_path, fault) ==
    IF fault = "exists"
    THEN [ret |-> "False", error |-> TRUE, objects |-> objects]
    ELSE IF fault = "after"
    THEN [ret |-> "False", error |-> TRUE, objects |-> objects]
    ELSE [ret |-> "True", error |-> FALSE,
          objects |-> [k \in DOMAIN objects \ {file_path} |-> objects[k]]]

\* delete_file: what it returns, whether the backend errored during the
\* call, and the bucket afterwards.
delete_file(file_path, fault) ==
    IF fault = "exists"
    THEN [ret |-> "False", error |-> TRUE, objects |-> objects]
    ELSE IF file_path \notin DOMAIN objects
    THEN [ret |-> "False", error |-> FALSE, objects |-> objects]
    ELSE IF fault = "after"
    THEN [ret |-> "False", error |-> TRUE, objects |-> objects]
    ELSE [ret |-> "True", error |-> FALSE,
          objects |-> [k \in DOMAIN objects \ {file_path} |-> objects[k]]]

NoGet == [key |-> 0, ret |-> None]

(***************************************************************************)
(* api/routes.py: the handlers of POST /api/applications ("create") and    *)
(* POST /api/applications/upload ("upload").  h.stage is the last stage of *)
(* Received, Validated, Stored, Persisted the request reached.             *)
(***************************************************************************)
NoRequest ==
    [pc |-> "idle", n |-> 0, endpoint |-> "none", hasFile |-> FALSE,
     file |-> NoFile, form |-> <<>>, v |-> [ok |-> FALSE, msg |-> "not called", pos |-> 0],
     stage |-> "none", path |-> None, resp |-> 0,
     objects0 |-> <<>>, docs0 |-> <<>>]

\* The storage path of a key, as a record's resume_url holds it.
StoragePath(key) == <<"blob", key>>

\* werkzeug's secure_filename on the names used here: whitespace becomes
\* '_', leading and trailing '.' and '_' are stripped.
RECURSIVE StripDots(_)
StripDots(s) ==
    IF s # <<>> /\ Head(s) \in {".", "_"} THEN StripDots(Tail(s))
    ELSE IF s # <<>> /\ s[Len(s)] \in {".", "_"}
    THEN StripDots(SubSeq(s, 1, Len(s) - 1))
    ELSE s

secure_filename(name) ==
    StripDots([i \in 1 .. Len(name) |->
                  IF name[i] \in Whitespace THEN "_" ELSE name[i]])

\* The except clauses: create_application answers a ValueError with 400 and
\* any other exception with 500, upload_resume answers every exception
\* with 500.
except_status(endpoint, exc) ==
    IF endpoint = "create" /\ exc = "ValueError" THEN 400 ELSE 500

\* The handler reads the request: receipt of a request.
Receive(endpoint, hasFile, file, form) ==
    /\ h.pc \in {"idle", "Responded"}
    /\ h' = [NoRequest EXCEPT !.pc = "Received", !.n = h.n + 1,
                              !.endpoint = endpoint, !.hasFile = hasFile,
                              !.file = file, !.form = form,
                              !.stage = "Received",
                              !.objects0 = objects, !.docs0 = docs]
    /\ UNCHANGED <<storeVars, valVars, objects, upVars, delVars, callVars>>

\* "if not is_valid: return 400" as a slip would have it: the test left out.
RejectsInvalid_never(is_valid) == FALSE

RejectsInvalid(is_valid) == ~is_valid

\* upload_resume lines 83-90, create_application lines 119-124.
HandleValidate ==
    /\ h.pc = "Received"
    /\ IF ~h.hasFile
       THEN IF h.endpoint = "upload"
            THEN h' = [h EXCEPT !.pc = "Responded", !.resp = 400]
            ELSE h' = [h EXCEPT !.pc = "Persisting", !.stage = "Stored"]
       ELSE LET r == validate_file(h.file) IN
            IF RejectsInvalid(r.ok)
            THEN h' = [h EXCEPT !.pc = "Responded", !.resp = 400, !.v = r,
                                !.file.pos = r.pos]
            ELSE h' = [h EXCEPT !.pc = "Validated", !.stage = "Validated",
                                !.v = r, !.file.pos = r.pos]
    /\ UNCHANGED <<storeVars, valVars, objects, upVars, delVars, callVars>>

\* upload_resume lines 93-97, create_application lines 127-131: file.read()
\* and the call of upload_file.
HandleStartUpload ==
    /\ h.pc = "Validated"
    /\ UploadEnter(ReadLen(h.file), secure_filename(h.file.filename))
    /\ h' = [h EXCEPT !.pc = "Uploading", !.file.pos = h.file.size]
    /\ UNCHANGED <<storeVars, valVars, delVars, callVars>>

\* upload_file returned: upload_resume answers 201 (lines 99-103),
\* create_application keeps the storage path (line 132).
HandleUploaded ==
    /\ h.pc = "Uploading"
    /\ up.pc = "returned"
    /\ IF h.endpoint = "upload"
       THEN h' = [h EXCEPT !.pc = "Responded", !.stage = "Stored",
                           !.path = StoragePath(up.ret[1]), !.resp = 201]
       ELSE h' = [h EXCEPT !.pc = "Persisting", !.stage = "Stored",
                           !.path = StoragePath(up.ret[1])]
    /\ UNCHANGED <<storeVars, valVars, objects, upVars, delVars, callVars>>

\* upload_file raised: the except clauses answer.
HandleUploadRaised ==
    /\ h.pc = "Uploading"
    /\ up.pc = "raised"
    /\ h' = [h EXCEPT !.pc = "Responded",
                      !.resp = except_status(h.endpoint, up.exc)]
    /\ UNCHANGED <<storeVars, valVars, objects, upVars, delVars, callVars>>

\* create_application lines 135-159: the record from the form, store.create,
\* and the response.
HandlePersist ==
    /\ h.pc = "Persisting"
    /\ \E backend_ok \in BOOLEAN :
          create(JobApplication(DictGet(h.form, "company", None),
                                DictGet(h.form, "position", None),
                                DictGet(h.form, "status", "applied"),
                                h.path,
                                DictGet(h.form, "notes", None), now),
                 backend_ok)
    /\ now' = now + 1
    /\ h' = IF lastOp'.res = "ok"
            THEN [h EXCEPT !.pc = "Responded", !.stage = "Persisted", !.resp = 201]
            ELSE [h EXCEPT !.pc = "Responded",
                           !.resp = except_status(h.endpoint, lastOp'.res)]
    /\ UNCHANGED <<valVars, objects, upVars, delVars, callVars>>

(***************************************************************************)
(* The calls the record store receives.  Every call reads the clock once   *)
(* and the clock has moved on by the next call.                            *)
(***************************************************************************)
Companies == {None, <<>>, <<" ">>, <<"A">>}
Positions == {<<" ", "\t">>, <<"P">>}
Statuses == {"applied", "bogus"}
NotesValues == {None, <<"n">>}
ResumeKeys == {None, <<"k">>}

\* The timestamps a caller puts in an updates map: one from before the
\* clock's first reading.
CallerTimes == {0}

UpdateKeys ==
    {"company", "position", "status", "resume_url", "notes",
     "created_at", "updated_at", "id"}

UpdateValues(k) ==
    CASE k = "company" -> Companies \cup {<<" ", "B">>}
      [] k = "position" -> Positions \cup {None, <<"Q">>}
      [] k = "status" -> Statuses \cup {"interviewing", ""}
      [] k = "resume_url" -> ResumeKeys
      [] k = "notes" -> NotesValues
      [] k = "created_at" -> CallerTimes
      [] k = "updated_at" -> CallerTimes
      [] k = "id" -> {"d9"}

\* The updates maps: the empty one, every map naming one key, and the maps
\* naming a status together with a timestamp or a company.
UpdateMaps ==
    {<<>>}
    \cup UNION {{[k \in {key} |-> v] : v \in UpdateValues(key)} : key \in UpdateKeys}
    \cup {[status |-> s, created_at |-> t] :
             s \in {"interviewing", "bogus"}, t \in CallerTimes}
    \cup {[status |-> s, company |-> c] :
             s \in {"interviewing", "bogus"}, c \in {<<>>, <<" ", "B">>}}

CreateCall ==
    /\ now <= MaxTime
    /\ \E c \in Companies, p \in Positions, s \in Statuses,
          r \in ResumeKeys, n \in NotesValues, ok \in BOOLEAN :
           create(JobApplication(c, p, s, r, n, now), ok)
    /\ now' = now + 1
    /\ UNCHANGED <<valVars, objects, upVars, delVars, h, callVars>>

UpdateCall ==
    /\ now <= MaxTime
    /\ \E id \in DocIds, u \in UpdateMaps, ok \in BOOLEAN : update(id, u, ok)
    /\ now' = now + 1
    /\ UNCHANGED <<valVars, objects, upVars, delVars, h, callVars>>

StoreInit ==
    /\ docs = <<>>
    /\ now = 1
    /\ lastOp = NoCall

StoreNext == CreateCall \/ UpdateCall

(***************************************************************************)
(* The files validate_file is called with.                                 *)
(***************************************************************************)
Filenames ==
    {<<>>,
     <<"c", "v">>,
     <<"c", "v", ".">>,
     <<".", "r", "t", "f">>,
     <<"c", "v", ".", "p", "d", "f">>,
     <<"c", "v", ".", "P", "D", "F">>,
     <<"c", "v", ".", "P", "d", "f">>,
     <<"c", "v", ".", "d", "o", "c">>,
     <<"c", "v", ".", "D", "o", "c", "x">>,
     <<"a", ".", "b", ".", "t", "x", "t">>,
     <<"a", ".", "t", "x", "t", ".", "e", "x", "e">>,
     <<"p", "d", "f">>,
     <<"c", "v", ".", "p", "d", "f", " ">>,
     <<"c", "v", ".", "p", "d">>,
     <<"c", "v", ".", "e", "x", "e">>}

FileSizes == {0, 1, MAX_FILE_SIZE - 1, MAX_FILE_SIZE, MAX_FILE_SIZE + 1}

\* A file part as the transport delivers it: read position at the start.
Files ==
    {NoFile} \cup
    {[present |-> TRUE, filename |-> f, size |-> n, pos |-> 0] :
         f \in Filenames, n \in FileSizes}

NoResult == [ok |-> FALSE, msg |-> "not called", pos |-> 0]

ValInit ==
    /\ vfile \in Files
    /\ vres = NoResult

ValidateCall ==
    /\ vres = NoResult
    /\ vres' = validate_file(vfile)
    /\ vfile' = [vfile EXCEPT !.pos = vres'.pos]
    /\ UNCHANGED <<storeVars, objects, upVars, delVars, h, callVars>>

ValIdle ==
    /\ vfile = NoFile
    /\ vres = NoResult

(***************************************************************************)
(* The calls the object store gateway receives.                            *)
(***************************************************************************)
Payloads == {0, 7}
UploadNames == {<<"c", "v", ".", "p", "d", "f">>, <<"c", "v">>}

UploadCall ==
    /\ nextKey <= MaxKeys
    /\ \E d \in Payloads, n \in UploadNames : UploadEnter(d, n)
    /\ UNCHANGED <<storeVars, valVars, delVars, h, callVars>>

UpInit ==
    /\ objects = <<>>
    /\ nextKey = 1
    /\ up = NoUpload

UploadNext == UploadCall \/ UploadWrite \/ UploadSign \/ UploadRetry

DelIdle ==
    /\ delLog = <<>>
    /\ lastGet = NoGet

\* The bucket outlives the process: it may hold objects when delete_file
\* and get_file_url are first called.
BucketInit ==
    /\ objects \in {[k \in S |-> 7] : S \in SUBSET (1 .. MaxKeys)}
    /\ nextKey = MaxKeys + 1
    /\ up = NoUpload

DeleteCall ==
    \E key \in 1 .. MaxKeys, fault \in BackendFaults :
        LET r == delete_file(key, fault)
            entry == [key |-> key, ret |-> r.ret, error |-> r.error,
                      existed |-> key \in DOMAIN objects]
        IN  /\ objects' = r.objects
            /\ delLog' = IF Len(delLog) < 2 THEN Append(delLog, entry)
                         ELSE <<delLog[2], entry>>
            /\ lastGet' = NoGet
            /\ UNCHANGED <<storeVars, valVars, upVars, h, callVars>>

GetUrlCall ==
    /\ \E key \in 1 .. MaxKeys, fault \in BackendFaults :
          lastGet' = [key |-> key, ret |-> get_file_url(key, fault)]
    /\ UNCHANGED <<objects, delLog>>
    /\ UNCHANGED <<storeVars, valVars, upVars, h, callVars>>

DeleteNext == DeleteCall \/ GetUrlCall

(***************************************************************************)
(* The requests the handlers receive.                                      *)
(***************************************************************************)
RequestFiles ==
    {[present |-> TRUE, filename |-> <<"c", "v", ".", "p", "d", "f">>,
      size |-> 7, pos |-> 0],
     [present |-> TRUE, filename |-> <<"c", "v", ".", "e", "x", "e">>,
      size |-> 7, pos |-> 0],
     [present |-> TRUE, filename |-> <<"c", "v", ".", "p", "d", "f">>,
      size |-> MAX_FILE_SIZE + 1, pos |-> 0]}

RequestForms ==
    {[company |-> <<"A">>, position |-> <<"P">>],
     [company |-> <<" ">>, position |-> <<"P">>, status |-> "offered"],
     [position |-> <<"P">>, notes |-> <<"n">>, status |-> "bogus"]}

ReceiveUpload ==
    /\ h.n < MaxRequests
    /\ nextKey <= MaxKeys
    /\ \/ Receive("upload", FALSE, NoFile, <<>>)
       \/ \E f \in RequestFiles : Receive("upload", TRUE, f, <<>>)

ReceiveCreate ==
    /\ h.n < MaxRequests
    /\ nextKey <= MaxKeys
    /\ Cardinality(DOMAIN docs) < Cardinality(DocIds)
    /\ \E form \in RequestForms :
          \/ Receive("create", FALSE, NoFile, form)
          \/ \E f \in RequestFiles : Receive("create", TRUE, f, form)

HandlerNext ==
    \/ ReceiveUpload
    \/ ReceiveCreate
    \/ HandleValidate
    \/ HandleStartUpload
    \/ UploadWrite
    \/ UploadSign
    \/ UploadRetry
    \/ HandleUploaded
    \/ HandleUploadRaised
    \/ HandlePersist

(***************************************************************************)
(* Two callers inside JobApplicationStore.update at once.  A call reaches  *)
(* the collection twice, at doc_ref.get and at doc_ref.update; what it     *)
(* does between the two is local to it.                                    *)
(***************************************************************************)
Callers == {"c1", "c2"}

NoUpdate == [pc |-> "idle", res |-> "none"]

\* The collection two create calls leave behind, one at each of the
\* clock's first two readings.
SeedDocs ==
    [id \in DocIds |->
        to_dict(JobApplication(<<"A">>, <<"P">>, "applied", None, None,
                               IF id = "d1" THEN 1 ELSE 2))]

\* The ids update is called with: the stored ones and one that is not.
UpdateTargets == DocIds \cup {"d9"}

\* The updates maps of the concurrent callers.
ConcurrentUpdates ==
    {[notes |-> <<"n">>], [status |-> "interviewing"], [status |-> "bogus"],
     [company |-> <<"B">>], [created_at |-> 0]}

\* UpdateFields as a slip would have it: only the keys the caller named,
\* and updated_at, are sent to doc_ref.update.
UpdateFields_patch(application, updates) ==
    [k \in (DOMAIN updates \cup {"updated_at"}) \cap DOMAIN to_dict(application)
        |-> to_dict(application)[k]]

\* update, line 73: the fields handed to doc_ref.update are the whole
\* merged application.
UpdateFields(application, updates) == to_dict(application)

\* update, lines 55-59: the call starts and reads the document.
UpdateGet(c) ==
    /\ upd[c].pc = "idle"
    /\ \E id \in UpdateTargets, u \in ConcurrentUpdates, ok \in BOOLEAN :
          upd' = [upd EXCEPT ![c] =
                     IF ~ok
                     THEN [pc |-> "done", id |-> id, updates |-> u,
                           res |-> "BackendError"]
                     ELSE IF id \notin DOMAIN docs
                     THEN [pc |-> "done", id |-> id, updates |-> u,
                           res |-> "None"]
                     ELSE [pc |-> "merge", id |-> id, updates |-> u,
                           doc |-> docs[id], res |-> "none"]]
    /\ UNCHANGED <<storeVars, valVars, objects, upVars, delVars, h,
                   lastWrite, listed>>

\* update, lines 62-70: the merge, the new updated_at and the validation.
UpdateMerge(c) ==
    /\ upd[c].pc = "merge"
    /\ LET current_data == MergedData(upd[c].doc, upd[c].updates, now)
           application == from_dict(current_data, now)
           errors == validate(application)
       IN  upd' = [upd EXCEPT ![c] =
                      IF errors # <<>>
                      THEN [pc |-> "done", id |-> @.id, updates |-> @.updates,
                            app |-> application, res |-> "ValueError",
                            errors |-> errors]
                      ELSE [pc |-> "write", id |-> @.id, updates |-> @.updates,
                            app |-> application, res |-> "none"]]
    /\ UNCHANGED <<storeVars, valVars, objects, upVars, delVars, h,
                   lastWrite, listed>>

\* update, lines 73-74: the write and the return of the merged application.
UpdateWrite(c) ==
    /\ upd[c].pc = "write"
    /\ \E ok \in BOOLEAN :
          IF ok
          THEN /\ docs' = [docs EXCEPT ![upd[c].id] =
                              DocUpdate(@, UpdateFields(upd[c].app,
                                                        upd[c].updates))]
               /\ lastWrite' = [lastWrite EXCEPT ![upd[c].id] = c]
               /\ upd' = [upd EXCEPT ![c] =
                             [pc |-> "done", id |-> @.id,
                              updates |-> @.updates, ret |-> @.app,
                              res |-> "ok"]]
          ELSE /\ upd' = [upd EXCEPT ![c] =
                             [pc |-> "done", id |-> @.id,
                              updates |-> @.updates, res |-> "BackendError"]]
               /\ UNCHANGED <<docs, lastWrite>>
    /\ UNCHANGED <<now, lastOp, valVars, objects, upVars, delVars, h, listed>>

\* datetime.utcnow() moves on while the callers run.
ClockTick ==
    /\ now <= MaxTime
    /\ now' = now + 1
    /\ UNCHANGED <<docs, lastOp, valVars, objects, upVars, delVars, h,
                   callVars>>

CallerGet == \E c \in Callers : UpdateGet(c)
CallerMerge == \E c \in Callers : UpdateMerge(c)
CallerWrite == \E c \in Callers : UpdateWrite(c)

\* The steps of a call that has started.
UpdateStep(c) == UpdateMerge(c) \/ UpdateWrite(c)

ConcurrentNext == CallerGet \/ CallerMerge \/ CallerWrite \/ ClockTick

SeedStore ==
    /\ docs = SeedDocs
    /\ now = 3
    /\ lastOp = NoCall

(***************************************************************************)
(* JobApplicationStore.list.  The status argument is a string; the empty   *)
(* string stands for the None of a call that names no status, which the    *)
(* test "if status:" treats alike.                                         *)
(***************************************************************************)
NoList ==
    [called |-> FALSE, limit |-> 0, status |-> "", ids |-> <<>>, ret |-> <<>>]

Min(a, b) == IF a <= b THEN a ELSE b

\* order_by('created_at', DESCENDING) over the documents ids of the
\* collection d: the orders in which Firestore can stream them, every
\* document once, none before one of a later created_at.
RECURSIVE Orderings(_, _)
Orderings(d, ids) ==
    IF ids = {} THEN {<<>>}
    ELSE LET newest == {x \in ids : \A y \in ids :
                           d[x]["created_at"] >= d[y]["created_at"]}
         IN  UNION {{<<m>> \o q : q \in Orderings(d, ids \ {m})} : m \in newest}

\* where('status', '==', status), added to the query when status is truthy.
Where(d, status) ==
    IF status # "" THEN {id \in DOMAIN d : d[id]["status"] = status}
    ELSE DOMAIN d

\* limit(n): the first n of the stream.
Limit(q, n) == SubSeq(q, 1, Min(n, Len(q)))

\* The query as a slip would have it: the limit cut before the status test.
list_query_limit_first(d, limit, status) ==
    {LET cut == Limit(q, limit)
         Matches(id) == id \in Where(d, status)
     IN  SelectSeq(cut, Matches) : q \in Orderings(d, DOMAIN d)}

\* list, lines 83-88: the id sequences the query can stream.
list_query(d, limit, status) ==
    {Limit(q, limit) : q \in Orderings(d, Where(d, status))}

\* JobApplicationStore.list: one JobApplication per streamed document.
list(limit, status) ==
    \E ids \in list_query(docs, limit, status) :
        listed' = [called |-> TRUE, limit |-> limit, status |-> status,
                   ids |-> ids,
                   ret |-> [i \in DOMAIN ids |-> from_dict(docs[ids[i]], now)]]

\* The documents of the collection list is called on.
ListIds == {"d1", "d2", "d3", "d4"}

\* The clock readings the listed records were created at.
ListTimes == {1, 2, 3}

ListRecords ==
    {to_dict(JobApplication(<<"A">>, <<"P">>, s, None, None, t)) :
        s \in {"applied", "rejected"}, t \in ListTimes}

\* The collections create calls leave behind, of up to four documents.
ListStores == UNION {[S -> ListRecords] : S \in SUBSET ListIds}

ListLimits == {1, 2, 5}
ListFilters == {"", "applied", "rejected", "bogus"}

ListCall ==
    /\ \E limit \in ListLimits, status \in ListFilters : list(limit, status)
    /\ UNCHANGED <<storeVars, valVars, objects, upVars, delVars, h,
                   upd, lastWrite>>

ListStoreInit ==
    /\ docs \in ListStores
    /\ now = MaxTime + 1
    /\ lastOp = NoCall


CallsIdle ==
    /\ upd = [c \in Callers |-> NoUpdate]
    /\ lastWrite = [id \in DocIds |-> "none"]
    /\ listed = NoList

HIdle == h = NoRequest

Init == StoreInit /\ ValIdle /\ UpInit /\ DelIdle /\ HIdle /\ CallsIdle

SpecStore == Init /\ [][StoreNext]_vars

InitValidate == StoreInit /\ ValInit /\ UpInit /\ DelIdle /\ HIdle /\ CallsIdle

SpecValidate == InitValidate /\ [][ValidateCall]_vars

SpecUpload == Init /\ [][UploadNext]_vars

\* upload_file runs to its end once called: its steps are not starved.
SpecUploadFair == SpecUpload /\ WF_vars(UploadStep)

InitDelete == StoreInit /\ ValIdle /\ BucketInit /\ DelIdle /\ HIdle /\ CallsIdle

SpecDelete == InitDelete /\ [][DeleteNext]_vars

SpecHandler == Init /\ [][HandlerNext]_vars

InitConcurrent ==
    SeedStore /\ ValIdle /\ UpInit /\ DelIdle /\ HIdle /\ CallsIdle

SpecConcurrent == InitConcurrent /\ [][ConcurrentNext]_vars

\* A caller inside update is not starved: asyncio and the threads of the
\* server run every started call on.
SpecConcurrentFair ==
    SpecConcurrent /\ \A c \in Callers : WF_vars(UpdateStep(c))

InitList ==
    ListStoreInit /\ ValIdle /\ UpInit /\ DelIdle /\ HIdle /\ CallsIdle

SpecList == InitList /\ [][ListCall]_vars

(***************************************************************************)
(* Claims about the record store, checked under SpecStore.                 *)
(***************************************************************************)
Fields ==
    {"company", "position", "status", "resume_url", "notes",
     "created_at", "updated_at"}

\* What the data model asks of a record: company and position non-empty
\* once trimmed, status one of the five.
NonEmptyTrimmed(x) == x # None /\ \E i \in 1 .. Len(x) : x[i] \notin Whitespace

PassesValidation(r) ==
    /\ NonEmptyTrimmed(r.company)
    /\ NonEmptyTrimmed(r.position)
    /\ r.status \in {"applied", "interviewing", "offered", "rejected", "accepted"}

\* The record a create or update call validated, when it got that far.
HasCandidate(call) == call.res \in {"ok", "ValueError"}
Candidate(call) == IF "ret" \in DOMAIN call THEN call.ret ELSE call.app

\* C1: every persisted record passes validation; a create or update whose
\* fully merged record fails validation raises ValueError, and only such a
\* call does; a call that raises leaves the persisted records as they were.
C1_OnlyValidPersisted ==
    /\ [](\A id \in DOMAIN docs : PassesValidation(docs[id]))
    /\ [](HasCandidate(lastOp) =>
            (lastOp.res = "ValueError" <=> ~PassesValidation(Candidate(lastOp))))
    /\ [][lastOp'.res = "ValueError" => docs' = docs]_vars

\* C1 witness: an update of a stored record whose merged record has an
\* all-blank company was refused.
C1_Witness ==
    /\ lastOp.op = "update"
    /\ lastOp.res = "ValueError"
    /\ lastOp.id \in DOMAIN docs
    /\ lastOp.app.company = <<" ">>
    /\ lastOp.errors = <<ErrCompany>>

\* C7: no step changes the created_at of a stored record or removes the
\* record from under its id.
C7_CreatedAtNeverMutated ==
    [][\A id \in DOMAIN docs :
          /\ id \in DOMAIN docs'
          /\ docs'[id].created_at = docs[id].created_at]_vars

\* C8: a successful update changes, in the record it names, only the fields
\* the updates map names and updated_at, which becomes the time of the call;
\* it returns the record it persisted and touches no other record.  An
\* update of an absent id returns None and writes nothing.
C8_UpdateFrame ==
    [][lastOp'.op = "update" =>
         LET id == lastOp'.id
             u == lastOp'.updates
         IN  /\ (id \notin DOMAIN docs /\ lastOp'.res # "BackendError")
                   => lastOp'.res = "None"
             /\ lastOp'.res # "ok" => docs' = docs
             /\ lastOp'.res = "ok" =>
                  /\ id \in DOMAIN docs
                  /\ DOMAIN docs' = DOMAIN docs
                  /\ \A other \in DOMAIN docs \ {id} : docs'[other] = docs[other]
                  /\ DOMAIN docs'[id] = Fields
                  /\ \A k \in Fields \ {"updated_at"} :
                        docs'[id][k] = IF k \in DOMAIN u THEN u[k] ELSE docs[id][k]
                  /\ docs'[id].updated_at = now
                  /\ \A k \in Fields : lastOp'.ret[k] = docs'[id][k]
    ]_vars

\* C8 witness: with two records stored, an update naming only the status
\* succeeded on one of them at a later time than its creation.
C8_Witness ==
    /\ lastOp.op = "update"
    /\ lastOp.res = "ok"
    /\ DOMAIN lastOp.updates = {"status"}
    /\ Cardinality(DOMAIN docs) = 2
    /\ docs[lastOp.id].status = "interviewing"
    /\ docs[lastOp.id].updated_at > docs[lastOp.id].created_at
    /\ docs[lastOp.id].resume_url = <<"k">>

(***************************************************************************)
(* Claims about validate_file, checked under SpecValidate.                 *)
(***************************************************************************)
\* The position of the last '.' of a name, 0 when it has none.
LastDot(name) ==
    IF \E i \in 1 .. Len(name) : name[i] = "."
    THEN CHOOSE i \in 1 .. Len(name) :
            name[i] = "." /\ \A j \in (i + 1) .. Len(name) : name[j] # "."
    ELSE 0

SameLetter(a, b) == a = b \/ \E i \in 1 .. 26 : UpperAlpha[i] = a /\ LowerAlpha[i] = b

\* ext is, up to case, the allowed extension e.
MatchesExtension(ext, e) ==
    Len(ext) = Len(e) /\ \A i \in 1 .. Len(e) : SameLetter(ext[i], e[i])

TenMiB == 10485760

\* The reference decision of the validator.
RefDecision(present, filename, length) ==
    IF ~present \/ filename = <<>> THEN "MissingFile"
    ELSE IF \/ LastDot(filename) = 0
            \/ ~\E e \in {<<"p", "d", "f">>, <<"d", "o", "c">>,
                          <<"d", "o", "c", "x">>, <<"t", "x", "t">>,
                          <<"r", "t", "f">>} :
                   MatchesExtension(
                       SubSeq(filename, LastDot(filename) + 1, Len(filename)), e)
         THEN "DisallowedType"
    ELSE IF length > TenMiB THEN "TooLarge"
    ELSE "ok"

\* The outcome a returned (is_valid, error_message) stands for.
Outcome(r) ==
    CASE r.ok -> "ok"
      [] ~r.ok /\ r.msg \in {MsgNoFile, MsgFilename} -> "MissingFile"
      [] ~r.ok /\ r.msg = MsgType -> "DisallowedType"
      [] ~r.ok /\ r.msg = MsgSize -> "TooLarge"
      [] OTHER -> "none"

\* C2: whatever the file, validate_file returns the reference decision.
C2_ValidateDecision ==
    vres # NoResult =>
        Outcome(vres) = RefDecision(vfile.present, vfile.filename, vfile.size)

\* C2 witness: a payload of exactly 10 MiB with an allowed extension in
\* upper case was accepted.
C2_Witness ==
    /\ vres # NoResult
    /\ vres.ok
    /\ vfile.size = TenMiB
    /\ vfile.filename = <<"c", "v", ".", "P", "D", "F">>

(***************************************************************************)
(* Claims about upload_file, checked under SpecUpload and SpecUploadFair.  *)
(***************************************************************************)
\* The keys the upload_file call in progress, or the last one, has drawn.
DrawnKeys == IF up.pc = "idle" THEN {} ELSE up.first .. (nextKey - 1)

\* C3: when upload_file has raised, the bucket holds no object the call
\* wrote.
C3_FailedUploadWritesNothing ==
    up.pc = "raised" => \A k \in DrawnKeys : k \notin DOMAIN objects

\* C4: upload_file makes at most RetryDeadline + 1 attempts, what it raises
\* after them is the retry error, what it returns is the key of a stored
\* object and that key's signed URL, and a call always returns or raises.
C4_UploadTerminates ==
    /\ [](Cardinality(DrawnKeys) <= RetryDeadline + 1)
    /\ [](up.pc = "raised" => up.exc = "RetryError")
    /\ [](up.pc = "returned" =>
            /\ up.ret[1] \in DrawnKeys
            /\ up.ret[1] \in DOMAIN objects
            /\ up.ret[2] = SignedUrl(up.ret[1]))
    /\ (up.pc = "write" ~> up.pc \in {"returned", "raised"})

\* C4 witness: every attempt's write failed, and after RetryDeadline + 1
\* attempts the call raised.
C4_Witness ==
    /\ up.pc = "raised"
    /\ Cardinality(DrawnKeys) = RetryDeadline + 1
    /\ objects = <<>>

(***************************************************************************)
(* Claims about the handlers, checked under SpecHandler.                   *)
(***************************************************************************)
FileDecision(file) == RefDecision(file.present, file.filename, file.size)

\* C5: while a request carrying a file part is handled, no step writes to
\* the bucket or the record store unless validate_file has returned ok for
\* the part; when the part is rejected the response is 400 and both stores
\* are as the request found them.
C5_ValidateBeforeStores ==
    /\ [][((objects' # objects \/ docs' # docs) /\ h.hasFile) =>
             (h.v.ok /\ FileDecision(h.file) = "ok")]_vars
    /\ []((h.pc = "Responded" /\ h.hasFile /\ FileDecision(h.file) # "ok") =>
             (h.resp = 400 /\ objects = h.objects0 /\ docs = h.docs0))

\* C5 witness: a second request, to POST /api/applications, carried a file
\* of a disallowed type and was answered, the bucket holding an object of
\* the first request.
C5_Witness ==
    /\ h.pc = "Responded"
    /\ h.n = 2
    /\ h.endpoint = "create"
    /\ h.hasFile
    /\ h.v.msg = MsgType
    /\ h.objects0 # <<>>

\* The last stage of each endpoint.
FinalStage(endpoint) == IF endpoint = "create" THEN "Persisted" ELSE "Stored"

\* C6: the status of a response is that of the transition that failed:
\* 400 after Received, 500 after Validated, after Stored 400 when the record
\* fails field validation and 500 otherwise, and 201 when none failed.
C6_StatusByFailedTransition ==
    h.pc = "Responded" =>
        /\ h.stage = FinalStage(h.endpoint) <=> h.resp = 201
        /\ (h.stage = "Received") => h.resp = 400
        /\ (h.stage = "Validated") => h.resp = 500
        /\ (h.stage = "Stored" /\ h.endpoint = "create") =>
              h.resp = IF PassesValidation(lastOp.app) THEN 500 ELSE 400

\* C6 witness: upload_file raised under POST /api/applications and the
\* response was 500.
C6_Witness ==
    /\ h.pc = "Responded"
    /\ h.endpoint = "create"
    /\ h.stage = "Validated"
    /\ up.pc = "raised"
    /\ h.resp = 500

(***************************************************************************)
(* Claims about delete_file, checked under SpecDelete.                     *)
(***************************************************************************)
\* C9: a delete_file call during which the backend errored raised
\* StorageDeleteFailed, and a call that returned False found no object.
C9_BackendErrorRaises ==
    \A i \in 1 .. Len(delLog) :
        /\ delLog[i].error => delLog[i].ret = "StorageDeleteFailed"
        /\ delLog[i].ret = "False" => ~delLog[i].existed

\* After a delete_file call: the object is gone and a get_file_url call
\* made since returned None.
GoneAfter(e) ==
    /\ e.key \notin DOMAIN objects
    /\ lastGet.key = e.key => lastGet.ret = None

Persisted(id, a) ==
    \A k \in Fields : k \in DOMAIN docs[id] /\ docs[id][k] = a[k]

LastWriteWins ==
    \A id \in DocIds :
        IF lastWrite[id] = "none"
        THEN docs[id] = SeedDocs[id]
        ELSE /\ upd[lastWrite[id]].res = "ok"
             /\ upd[lastWrite[id]].id = id
             /\ Persisted(id, upd[lastWrite[id]].ret)

\* C11: update calls that interleave their read, merge and write steps in
\* any way all terminate, and each record is, field for field, the merged
\* application returned by the call whose write on its id came last; a
\* record no call wrote is what it was, whichever other id was written.
C11_LastWriteWins ==
    /\ [](LastWriteWins)
    /\ \A c \in Callers : (upd[c].pc \in {"merge", "write"}) ~> (upd[c].pc = "done")

\* Both callers wrote the same id, c1 naming the notes and c2 the status;
\* c2 read before c1 wrote and wrote after it, so c1's notes are gone.
C11_Witness ==
    /\ upd["c1"].pc = "done" /\ upd["c1"].res = "ok"
    /\ upd["c2"].pc = "done" /\ upd["c2"].res = "ok"
    /\ upd["c1"].id = "d1" /\ upd["c2"].id = "d1"
    /\ upd["c1"].updates = [notes |-> <<"n">>]
    /\ upd["c2"].updates = [status |-> "interviewing"]
    /\ lastWrite["d1"] = "c2"
    /\ docs["d1"]["notes"] = None
    /\ docs["d1"]["status"] = "interviewing"
    /\ docs["d2"] = SeedDocs["d2"]

(***************************************************************************)
(* Claims about list, checked under SpecList.                              *)
(***************************************************************************)
\* The documents a status filter lets through; no filter lets all through.
Matching(status) ==
    IF status = "" THEN DOMAIN docs
    ELSE {id \in DOMAIN docs : docs[id]["status"] = status}

Listed == {listed.ids[i] : i \in DOMAIN listed.ids}

\* C12: whatever the collection, the limit and the status filter, list
\* returns at most limit records, none before one of a later created_at;
\* they are records whose status matches the filter (all records when
\* there is no filter), as many of them as the limit allows, and no
\* matching record left out is newer than a returned one: the filter is
\* applied before the limit.
C12_ListNewestMatching ==
    listed.called =>
        /\ Len(listed.ids) <= listed.limit
        /\ Len(listed.ret) = Len(listed.ids)
        /\ \A i, j \in DOMAIN listed.ids : i # j => listed.ids[i] # listed.ids[j]
        /\ \A i, j \in DOMAIN listed.ret :
              i < j => listed.ret[i].created_at >= listed.ret[j].created_at
        /\ Listed \subseteq Matching(listed.status)
        /\ Len(listed.ids) = Min(listed.limit, Cardinality(Matching(listed.status)))
        /\ \A m \in Matching(listed.status) \ Listed : \A i \in DOMAIN listed.ret :
              docs[m]["created_at"] <= listed.ret[i].created_at
        /\ \A i \in DOMAIN listed.ret : \A k \in Fields :
              listed.ret[i][k] = docs[listed.ids[i]][k]

\* list(2, "applied") on four records, the newest of which is rejected and
\* three of which are applied: the two newest applied ones come back.
C12_Witness ==
    /\ listed.called /\ listed.limit = 2 /\ listed.status = "applied"
    /\ Cardinality(DOMAIN docs) = 4
    /\ Cardinality(Matching("applied")) = 3
    /\ \E r \in DOMAIN docs :
          /\ docs[r]["status"] = "rejected"
          /\ \A m \in Matching("applied") :
                docs[m]["created_at"] < docs[r]["created_at"]
    /\ Len(listed.ids) = 2
    /\ listed.ret[1].created_at > listed.ret[2].created_at

(***************************************************************************)
(* Claims about the read position, checked under SpecHandler.  A payload   *)
(* is known by its length: file.read() yields the bytes from the read      *)
(* position to the end, which are the whole part exactly when they are as  *)
(* many as the part has.                                                   *)
(***************************************************************************)
\* The objects written since the request in hand was received.
WrittenByRequest == DOMAIN objects \ DOMAIN h.objects0

PayloadComplete ==
    /\ (h.pc = "Uploading" /\ up.pc \in {"write", "sign", "retry"}) =>
           up.data = h.file.size /\ up.data > 0
    /\ h.hasFile => \A k \in WrittenByRequest : objects[k] = h.file.size

\* C13: when validate_file returns, accepting or rejecting, the read
\* position of the file part is what it was before the call; the payload
\* the handler then reads and hands to upload_file, and every object
\* written from it, is the whole uploaded part, never empty or truncated.
C13_ReadPositionRestored ==
    /\ [][(h.pc = "Received" /\ h.hasFile) => h'.file.pos = h.file.pos]_vars
    /\ [](PayloadComplete)

\* An upload request whose part was validated, read and stored whole.
C13_Witness ==
    /\ h.endpoint = "upload" /\ h.pc = "Responded" /\ h.resp = 201
    /\ h.v.ok /\ h.v.pos = 0
    /\ h.file.size = 7
    /\ \E k \in WrittenByRequest : objects[k] = 7 /\ h.path = StoragePath(k)

\* The stored objects no persisted record refers to.
OrphanKeys ==
    {k \in DOMAIN objects :
        \A id \in DOMAIN docs : docs[id]["resume_url"] # StoragePath(k)}

\* C14: once POST /api/applications has answered, every object the request
\* wrote to the bucket is the resume_url of a persisted record; a request
\* answered with an error leaves no object of its own in the bucket.
C14_NoOrphanObject ==
    (h.endpoint = "create" /\ h.pc = "Responded") =>
        /\ WrittenByRequest \cap OrphanKeys = {}
        /\ h.resp # 201 => WrittenByRequest = {}

====
